---- MODULE Spec2Model ----
(***************************************************************************)
(* Jurisdiction indexing and query-aggregation engine of src/src/App.tsx.  *)
(*                                                                         *)
(* Text values are sequences of one-character strings, so that padding,    *)
(* concatenation, integer parsing and number formatting are computed the   *)
(* way the JavaScript operations compute them.  Names (STNAME, NAME,       *)
(* CTYNAME) are sequences of lower-case letters.                           *)
(***************************************************************************)
EXTENDS Integers, Sequences, FiniteSets, TLC

VARIABLES
    placesData,           \* rows the place parse delivers on completion
    countiesData,         \* rows the county parse delivers on completion
    placesPromise,        \* "pending" | "resolved" | "rejected"
    countiesPromise,      \* "pending" | "resolved" | "rejected"
    pc,                   \* position of loadData
    isCancelled,          \* the effect's liveness flag, set by the cleanup
    loading,
    error,
    states,
    placesByStateFips,
    countiesByStateFips,
    placeLookup,
    countyLookup,
    selectedState,
    jurisdictionType,
    selectedJurisdiction,
    selectedMetric,
    basketSelections,
    now,                  \* the value Date.now() returns
    keepHistory,          \* whether this run records removedIds
    removedIds,           \* history: identities of the Selections removed so far
    unknownResolved,      \* history: handleAddSelection has met a code its lookup lacks
    codeArgs,             \* the state code and local code handed to an identifier helper
    canonicalId           \* what the helper returned, Null before the call

engine == <<states, placesByStateFips, countiesByStateFips, placeLookup,
            countyLookup, loading, error>>

form == <<selectedState, jurisdictionType, selectedJurisdiction, selectedMetric>>

load == <<placesData, countiesData, placesPromise, countiesPromise, pc, isCancelled>>

vars == <<placesData, countiesData, placesPromise, countiesPromise, pc,
          isCancelled, loading, error, states, placesByStateFips,
          countiesByStateFips, placeLookup, countyLookup, selectedState,
          jurisdictionType, selectedJurisdiction, selectedMetric,
          basketSelections, now, keepHistory, removedIds, unknownResolved,
          codeArgs, canonicalId>>

identifier == <<codeArgs, canonicalId>>

history == <<keepHistory, removedIds, unknownResolved, identifier>>

(***************************************************************************)
(* Bounds of the model.                                                    *)
(***************************************************************************)
MaxBasket == 2      \* Selections the basket may hold

(***************************************************************************)
(* JavaScript values.                                                      *)
(***************************************************************************)
\* A field the decoded row does not have (undefined).
Undefined == <<"undefined">>

\* null of a state that holds an object or null.
Null == [null |-> TRUE]

NoError == "null"

LoadErrorMessage ==
    "Failed to load Census data files. Please check that the CSV files are available."

EmptyMap == <<>>

\* !v for a text field: undefined and the empty string are falsy.
Falsy(v) == v = Undefined \/ v = <<>>

Truthy(v) == ~Falsy(v)

\* a || b
OrElse(a, b) == IF Truthy(a) THEN a ELSE b

Digit == {"0", "1", "2", "3", "4", "5", "6", "7", "8", "9"}

DigitValue(c) ==
    CASE c = "0" -> 0 [] c = "1" -> 1 [] c = "2" -> 2 [] c = "3" -> 3
      [] c = "4" -> 4 [] c = "5" -> 5 [] c = "6" -> 6 [] c = "7" -> 7
      [] c = "8" -> 8 [] c = "9" -> 9

DigitChar(d) == <<"0", "1", "2", "3", "4", "5", "6", "7", "8", "9">>[d + 1]

\* A padStart that cuts a longer text down to the width.
PadStartTruncating(s, width) ==
    IF Len(s) >= width THEN SubSeq(s, Len(s) - width + 1, Len(s))
    ELSE [i \in 1..(width - Len(s)) |-> "0"] \o s

\* String.prototype.padStart(width, '0'): a longer text is returned unchanged.
PadStart(s, width) ==
    IF Len(s) >= width THEN s
    ELSE [i \in 1..(width - Len(s)) |-> "0"] \o s

padState(state) == PadStart(state, 2)

padPlace(place) == PadStart(place, 5)

padCounty(county) == PadStart(county, 3)

getPlaceGEOID(state, place) == padState(state) \o padPlace(place)

getCountyFIPS(state, county) == padState(state) \o padCounty(county)

(***************************************************************************)
(* parseInt and Intl.NumberFormat('en-US').format.                         *)
(***************************************************************************)
NaN == [isNaN |-> TRUE, val |-> 0]

Num(n) == [isNaN |-> FALSE, val |-> n]

RECURSIVE SkipSpaces(_)
SkipSpaces(s) ==
    IF s # <<>> /\ Head(s) = " " THEN SkipSpaces(Tail(s)) ELSE s

\* The longest prefix of s made of decimal digits.
RECURSIVE DigitPrefix(_)
DigitPrefix(s) ==
    IF s # <<>> /\ Head(s) \in Digit THEN <<Head(s)>> \o DigitPrefix(Tail(s))
    ELSE <<>>

RECURSIVE DigitsToNat(_, _)
DigitsToNat(s, acc) ==
    IF s = <<>> THEN acc
    ELSE DigitsToNat(Tail(s), acc * 10 + DigitValue(Head(s)))

\* parseInt(s): leading white space, an optional sign, then decimal digits;
\* whatever follows the digits is ignored, and no digit at all is NaN.
parseInt(s) ==
    LET t == SkipSpaces(s)
        neg == t # <<>> /\ Head(t) = "-"
        signed == t # <<>> /\ Head(t) \in {"-", "+"}
        body == IF signed THEN Tail(t) ELSE t
        ds == DigitPrefix(body)
    IN  IF ds = <<>> THEN NaN
        ELSE Num(IF neg THEN 0 - DigitsToNat(ds, 0) ELSE DigitsToNat(ds, 0))

RECURSIVE NatToDigits(_)
NatToDigits(n) ==
    IF n < 10 THEN <<DigitChar(n)>>
    ELSE NatToDigits(n \div 10) \o <<DigitChar(n % 10)>>

\* Decimal digits with a "," before every group of three, counted from the right.
GroupThousands(ds) ==
    LET n == Len(ds)
        Piece(i) == IF i > 1 /\ (n - i + 1) % 3 = 0 THEN <<",", ds[i]>> ELSE <<ds[i]>>
        F[i \in 0..n] == IF i = 0 THEN <<>> ELSE F[i - 1] \o Piece(i)
    IN  F[n]

formatNumber(value) ==
    IF value.isNaN THEN <<"N", "a", "N">>
    ELSE IF value.val < 0 THEN <<"-">> \o GroupThousands(NatToDigits(0 - value.val))
    ELSE GroupThousands(NatToDigits(value.val))

(***************************************************************************)
(* localeCompare on lower-case names, and the stable Array.prototype.sort. *)
(***************************************************************************)
Alphabet == <<"a", "b", "c", "d", "e", "f", "g", "h", "i", "j", "k", "l", "m",
              "n", "o", "p", "q", "r", "s", "t", "u", "v", "w", "x", "y", "z">>

LetterRank(c) == CHOOSE i \in 1..Len(Alphabet) : Alphabet[i] = c

\* a.localeCompare(b) < 0
RECURSIVE NameBefore(_, _)
NameBefore(a, b) ==
    IF b = <<>> THEN FALSE
    ELSE IF a = <<>> THEN TRUE
    ELSE IF Head(a) = Head(b) THEN NameBefore(Tail(a), Tail(b))
    ELSE LetterRank(Head(a)) < LetterRank(Head(b))

\* Insert index x after every index whose name does not sort after its own (stable).
RECURSIVE InsertSorted(_, _, _)
InsertSorted(sorted, x, names) ==
    IF sorted = <<>> THEN <<x>>
    ELSE IF NameBefore(names[x], names[Head(sorted)]) THEN <<x>> \o sorted
    ELSE <<Head(sorted)>> \o InsertSorted(Tail(sorted), x, names)

\* seq sorted by names, where names[i] is the name seq[i] is compared by.
SortByName(seq, names) ==
    LET F[i \in 0..Len(seq)] ==
            IF i = 0 THEN <<>> ELSE InsertSorted(F[i - 1], i, names)
    IN  [i \in 1..Len(seq) |-> seq[F[Len(seq)][i]]]

(***************************************************************************)
(* Map operations.  A Map read only by key is a function; stateSet, whose  *)
(* entries are listed in insertion order, is a sequence of entries.        *)
(***************************************************************************)
MapHas(m, k) == k \in DOMAIN m

MapSet(m, k, v) == (k :> v) @@ m

\* Map.prototype.set on an insertion-ordered map: an existing key keeps its place.
OrderedSet(entries, k, v) ==
    IF \E i \in 1..Len(entries) : entries[i].key = k
    THEN [i \in 1..Len(entries) |->
            IF entries[i].key = k THEN [key |-> k, value |-> v] ELSE entries[i]]
    ELSE Append(entries, [key |-> k, value |-> v])

(***************************************************************************)
(* loadData: the index build, lines 167-216.                               *)
(***************************************************************************)
PlaceSumlev == <<"1", "6", "2">>

CountySumlev == <<"0", "5", "0">>

StateAggregateCounty == <<"0", "0", "0">>

\* stateSet after the forEach over one dataset.
AddStates(entries, data) ==
    LET F[i \in 0..Len(data)] ==
            IF i = 0 THEN entries
            ELSE IF Truthy(data[i].STNAME) /\ Truthy(data[i].STATE_)
                 THEN OrderedSet(F[i - 1], data[i].STATE_, data[i].STNAME)
                 ELSE F[i - 1]
    IN  F[Len(data)]

statesList(pData, cData) ==
    LET stateSet == AddStates(AddStates(<<>>, pData), cData)
        mapped == [i \in 1..Len(stateSet) |->
                     [fips |-> padState(stateSet[i].key), name |-> stateSet[i].value]]
    IN  SortByName(mapped, [i \in 1..Len(mapped) |-> mapped[i].name])

\* A place guard that forgets the summary level.
PlaceRetainedAnyLevel(row) ==
    ~(Falsy(row.STATE_) \/ Falsy(row.NAME) \/ Falsy(row.PLACE))

PlaceRetained(row) ==
    ~(Falsy(row.STATE_) \/ Falsy(row.NAME) \/ Falsy(row.PLACE) \/ row.SUMLEV # PlaceSumlev)

\* A county guard that forgets the statewide row.
CountyRetainedWithTotals(row) ==
    ~(Falsy(row.STATE_) \/ Falsy(row.CTYNAME) \/ Falsy(row.COUNTY)
        \/ row.SUMLEV # CountySumlev)

CountyRetained(row) ==
    ~(Falsy(row.STATE_) \/ Falsy(row.CTYNAME) \/ Falsy(row.COUNTY)
        \/ row.SUMLEV # CountySumlev \/ row.COUNTY = StateAggregateCounty)

\* Push row on the bucket of stateFips, creating the bucket when it is new.
BucketPush(m, stateFips, row) ==
    MapSet(m, stateFips, IF MapHas(m, stateFips) THEN Append(m[stateFips], row) ELSE <<row>>)

placesMap(pData) ==
    LET F[i \in 0..Len(pData)] ==
            IF i = 0 THEN EmptyMap
            ELSE IF PlaceRetained(pData[i])
                 THEN BucketPush(F[i - 1], padState(pData[i].STATE_), pData[i])
                 ELSE F[i - 1]
    IN  F[Len(pData)]

PlaceLookupKey(row) == getPlaceGEOID(row.STATE_, row.PLACE)

placeLookupMap(pData) ==
    LET F[i \in 0..Len(pData)] ==
            IF i = 0 THEN EmptyMap
            ELSE IF PlaceRetained(pData[i])
                 THEN MapSet(F[i - 1], PlaceLookupKey(pData[i]), pData[i])
                 ELSE F[i - 1]
    IN  F[Len(pData)]

countiesMap(cData) ==
    LET F[i \in 0..Len(cData)] ==
            IF i = 0 THEN EmptyMap
            ELSE IF CountyRetained(cData[i])
                 THEN BucketPush(F[i - 1], padState(cData[i].STATE_), cData[i])
                 ELSE F[i - 1]
    IN  F[Len(cData)]

\* A key built from the raw fields, without padding.
CountyLookupKeyRaw(row) == row.STATE_ \o row.COUNTY

CountyLookupKey(row) == getCountyFIPS(row.STATE_, row.COUNTY)

countyLookupMap(cData) ==
    LET F[i \in 0..Len(cData)] ==
            IF i = 0 THEN EmptyMap
            ELSE IF CountyRetained(cData[i])
                 THEN MapSet(F[i - 1], CountyLookupKey(cData[i]), cData[i])
                 ELSE F[i - 1]
    IN  F[Len(cData)]

(***************************************************************************)
(* Decoded rows.  Each dataset is a sequence of rows as PapaParse delivers *)
(* them with header: true: every field is text or missing.  The STATE     *)
(* column is the field STATE_ (STATE is a reserved word).                  *)
(***************************************************************************)
PlaceRow(stname, state, name, place, sumlev, pop2024, pop2023) ==
    [STNAME |-> stname, STATE_ |-> state, NAME |-> name, PLACE |-> place,
     SUMLEV |-> sumlev, POPESTIMATE2024 |-> pop2024, POPESTIMATE2023 |-> pop2023]

CountyRow(stname, state, ctyname, county, sumlev, pop2024, pop2023) ==
    [STNAME |-> stname, STATE_ |-> state, CTYNAME |-> ctyname, COUNTY |-> county,
     SUMLEV |-> sumlev, POPESTIMATE2024 |-> pop2024, POPESTIMATE2023 |-> pop2023]

California == <<"c", "a", "l">>
Nevada == <<"n", "e", "v">>

\* {STATE:"06", PLACE:"00002", NAME:"Alpine", SUMLEV:"162", POPESTIMATE2024:"5000"}
AlpinePlace ==
    PlaceRow(California, <<"0", "6">>, <<"a", "l", "p">>, <<"0", "0", "0", "0", "2">>,
             PlaceSumlev, <<"5", "0", "0", "0">>, Undefined)

\* The same place written without leading zeros.
AlpineUnpadded ==
    PlaceRow(California, <<"6">>, <<"a", "l", "t">>, <<"2">>,
             PlaceSumlev, <<"7", "0", "0">>, <<"1", "2">>)

\* The same place at the county-subdivision summary level.
AlpineSubdivision ==
    PlaceRow(California, <<"0", "6">>, <<"a", "l", "p">>, <<"0", "0", "0", "0", "2">>,
             <<"1", "5", "7">>, <<"7">>, <<"7">>)

\* A place row whose state name is empty.
UnnamedStatePlace ==
    PlaceRow(<<>>, <<"7", "2">>, <<"c", "o", "a">>, <<"9">>,
             PlaceSumlev, <<"4", "0">>, <<"3", "9">>)

\* A county whose prior-year estimate is not a number.
AlamedaCounty ==
    CountyRow(California, <<"0", "6">>, <<"a", "l", "a">>, <<"1">>,
              CountySumlev, <<"1", "6", "0", "0", "0", "0", "0">>, <<"x">>)

\* The statewide total row of the county file.
NevadaTotal ==
    CountyRow(Nevada, <<"3", "2">>, Nevada, StateAggregateCounty,
              <<"0", "4", "0">>, <<"9">>, <<"9">>)

\* County code 000 at the county summary level.
CaliforniaSentinel ==
    CountyRow(California, <<"0", "6">>, California, StateAggregateCounty,
              CountySumlev, <<"9">>, <<"9">>)

PlaceDatasets ==
    { <<>>,
      <<AlpineUnpadded, AlpineSubdivision, AlpinePlace, UnnamedStatePlace>> }

CountyDatasets ==
    { <<>>,
      <<NevadaTotal, AlamedaCounty, CaliforniaSentinel>> }

\* The values Date.now() and Math.random() are drawn from.  Two identities of
\* different instants differ whatever Math.random() returns; the Selections of
\* a run are recorded within one instant of the millisecond clock, where the
\* identity rests on Math.random() alone.
Instants == {0}

RandomValues == {0, 1}

(***************************************************************************)
(* State after construction: loadData has started both parses and waits at *)
(* the await of line 163.                                                  *)
(***************************************************************************)
Metrics == {"pop2024", "code", "pop2023"}

JurisdictionTypes == {"place", "county"}

\* The component as it is mounted, whatever the files hold.
Mounted ==
    /\ placesPromise = "pending"
    /\ countiesPromise = "pending"
    /\ pc = "awaiting"
    /\ isCancelled = FALSE
    /\ loading = TRUE
    /\ error = NoError
    /\ states = <<>>
    /\ placesByStateFips = EmptyMap
    /\ countiesByStateFips = EmptyMap
    /\ placeLookup = EmptyMap
    /\ countyLookup = EmptyMap
    /\ selectedState = Null
    /\ jurisdictionType = "place"
    /\ selectedJurisdiction = Null
    /\ selectedMetric = ""
    /\ basketSelections = <<>>
    /\ now = 0
    /\ removedIds = {}
    /\ unknownResolved = FALSE

Constructed ==
    /\ placesData \in PlaceDatasets
    /\ countiesData \in CountyDatasets
    /\ Mounted

\* No identifier helper is called on its own.
NoArgs == [state |-> <<>>, local |-> <<>>]

Init == Constructed /\ keepHistory = FALSE /\ codeArgs = NoArgs /\ canonicalId = Null

\* The same program, with the history of removed identities recorded.
InitHistory ==
    Constructed /\ keepHistory = TRUE /\ codeArgs = NoArgs /\ canonicalId = Null

(***************************************************************************)
(* Data loading, lines 128-238.                                            *)
(***************************************************************************)
\* complete callback of the place parse: resolve(results.data)
PlacesComplete ==
    /\ placesPromise = "pending"
    /\ placesPromise' = "resolved"
    /\ UNCHANGED <<placesData, countiesData, countiesPromise, pc, isCancelled,
                   engine, form, basketSelections, now, history>>

\* error callback of the place parse: reject(err)
PlacesError ==
    /\ placesPromise = "pending"
    /\ placesPromise' = "rejected"
    /\ UNCHANGED <<placesData, countiesData, countiesPromise, pc, isCancelled,
                   engine, form, basketSelections, now, history>>

CountiesComplete ==
    /\ countiesPromise = "pending"
    /\ countiesPromise' = "resolved"
    /\ UNCHANGED <<placesData, countiesData, placesPromise, pc, isCancelled,
                   engine, form, basketSelections, now, history>>

CountiesError ==
    /\ countiesPromise = "pending"
    /\ countiesPromise' = "rejected"
    /\ UNCHANGED <<placesData, countiesData, placesPromise, pc, isCancelled,
                   engine, form, basketSelections, now, history>>

\* Promise.all fulfils once both promises have.
AllResolved == placesPromise = "resolved" /\ countiesPromise = "resolved"

\* A join that rejects only when both promises have.
BothRejected == placesPromise = "rejected" /\ countiesPromise = "rejected"

\* Promise.all rejects as soon as either promise does.
AnyRejected == placesPromise = "rejected" \/ countiesPromise = "rejected"

\* The values the setters of lines 218-223 publish.
PublishedEngine(pData, cData) ==
    [states |-> statesList(pData, cData),
     placesByStateFips |-> placesMap(pData),
     countiesByStateFips |-> countiesMap(cData),
     placeLookup |-> placeLookupMap(pData),
     countyLookup |-> countyLookupMap(cData),
     loading |-> FALSE,
     error |-> NoError]

\* The engine state as a record of its seven values.
CurrentEngine ==
    [states |-> states,
     placesByStateFips |-> placesByStateFips,
     countiesByStateFips |-> countiesByStateFips,
     placeLookup |-> placeLookup,
     countyLookup |-> countyLookup,
     loading |-> loading,
     error |-> error]

\* What the catch branch writes: setError, setLoading(false).
FailedEngine(current) ==
    [current EXCEPT !.error = LoadErrorMessage, !.loading = FALSE]

\* A continuation that skips the isCancelled check of line 165.
AfterFulfilledUnchecked(current, cancelled, pData, cData) ==
    PublishedEngine(pData, cData)

\* The continuation after the await when Promise.all fulfilled: line 165
\* returns before any setter when the effect was cancelled.
AfterFulfilled(current, cancelled, pData, cData) ==
    IF cancelled THEN current ELSE PublishedEngine(pData, cData)

\* A catch branch that leaves the error value unset.
AfterRejectedSilently(current, cancelled) ==
    IF ~cancelled THEN [current EXCEPT !.loading = FALSE] ELSE current

\* The catch branch: line 225 writes only when the effect was not cancelled.
AfterRejected(current, cancelled) ==
    IF ~cancelled THEN FailedEngine(current) ELSE current

\* A publication that misses setCountyLookup.
RenderWithoutCountyLookup(e) ==
    /\ states' = e.states
    /\ placesByStateFips' = e.placesByStateFips
    /\ countiesByStateFips' = e.countiesByStateFips
    /\ placeLookup' = e.placeLookup
    /\ countyLookup' = countyLookup
    /\ loading' = e.loading
    /\ error' = e.error

\* The setters of one synchronous block are applied in one render.
Render(e) ==
    /\ states' = e.states
    /\ placesByStateFips' = e.placesByStateFips
    /\ countiesByStateFips' = e.countiesByStateFips
    /\ placeLookup' = e.placeLookup
    /\ countyLookup' = e.countyLookup
    /\ loading' = e.loading
    /\ error' = e.error

\* The continuation of the await when Promise.all fulfilled, lines 165-223.
LoadSucceeded ==
    /\ pc = "awaiting"
    /\ AllResolved
    /\ pc' = "done"
    /\ Render(AfterFulfilled(CurrentEngine, isCancelled, placesData, countiesData))
    /\ UNCHANGED <<placesData, countiesData, placesPromise, countiesPromise,
                   isCancelled, form, basketSelections, now, history>>

\* The catch branch when Promise.all rejected, lines 224-230.
LoadFailed ==
    /\ pc = "awaiting"
    /\ AnyRejected
    /\ pc' = "done"
    /\ Render(AfterRejected(CurrentEngine, isCancelled))
    /\ UNCHANGED <<placesData, countiesData, placesPromise, countiesPromise,
                   isCancelled, form, basketSelections, now, history>>

\* The effect cleanup, lines 235-237: the component is unmounted.
Cleanup ==
    /\ ~isCancelled
    /\ isCancelled' = TRUE
    /\ UNCHANGED <<placesData, countiesData, placesPromise, countiesPromise, pc,
                   engine, form, basketSelections, now, history>>

(***************************************************************************)
(* Computed values and event handlers, lines 245-372.  The form and the    *)
(* basket are rendered only when loading is false and error is null        *)
(* (lines 378-400), and only while the component is mounted.               *)
(***************************************************************************)
Rendered == ~loading /\ error = NoError /\ ~isCancelled

\* Array.prototype.find(...) || null
FindOrNull(seq, Test(_)) ==
    IF \E i \in 1..Len(seq) : Test(seq[i])
    THEN seq[CHOOSE i \in 1..Len(seq) :
                Test(seq[i]) /\ \A j \in 1..(i - 1) : ~Test(seq[j])]
    ELSE Null

\* Map.prototype.get(key) || []
BucketOf(m, key) == IF MapHas(m, key) THEN m[key] ELSE <<>>

PlaceOption(row) == [value |-> getPlaceGEOID(row.STATE_, row.PLACE), label |-> row.NAME]

CountyOption(row) == [value |-> getCountyFIPS(row.STATE_, row.COUNTY), label |-> row.CTYNAME]

\* jurisdictionOptions for a state of the catalog (or null) and a type.
OptionsFor(state, type) ==
    IF state = Null THEN <<>>
    ELSE IF type = "place"
    THEN LET places == BucketOf(placesByStateFips, state.fips)
             mapped == [i \in 1..Len(places) |-> PlaceOption(places[i])]
         IN  SortByName(mapped, [i \in 1..Len(mapped) |-> mapped[i].label])
    ELSE LET counties == BucketOf(countiesByStateFips, state.fips)
             mapped == [i \in 1..Len(counties) |-> CountyOption(counties[i])]
         IN  SortByName(mapped, [i \in 1..Len(mapped) |-> mapped[i].label])

jurisdictionOptions == OptionsFor(selectedState, jurisdictionType)

\* A state change that keeps the jurisdiction selected before it.
handleStateChangeKeepingJurisdiction ==
    /\ Rendered
    /\ \E value \in {states[i].fips : i \in 1..Len(states)} \cup {Undefined} :
          LET HasFips(st) == st.fips = value
          IN  selectedState' = FindOrNull(states, HasFips)
    /\ UNCHANGED <<load, engine, jurisdictionType, selectedJurisdiction, selectedMetric,
                   basketSelections, now, history>>

handleStateChange ==
    /\ Rendered
    /\ \E value \in {states[i].fips : i \in 1..Len(states)} \cup {Undefined} :
          LET HasFips(st) == st.fips = value
          IN  selectedState' = FindOrNull(states, HasFips)
    /\ selectedJurisdiction' = Null
    /\ UNCHANGED <<load, engine, jurisdictionType, selectedMetric,
                   basketSelections, now, history>>

handleTypeChange ==
    /\ Rendered
    /\ \E value \in JurisdictionTypes : jurisdictionType' = value
    /\ selectedJurisdiction' = Null
    /\ UNCHANGED <<load, engine, selectedState, selectedMetric,
                   basketSelections, now, history>>

handleJurisdictionChange ==
    /\ Rendered
    /\ \E value \in {jurisdictionOptions[i].value : i \in 1..Len(jurisdictionOptions)}
                        \cup {Undefined} :
          LET HasValue(opt) == opt.value = value
          IN  selectedJurisdiction' = FindOrNull(jurisdictionOptions, HasValue)
    /\ UNCHANGED <<load, engine, selectedState, jurisdictionType, selectedMetric,
                   basketSelections, now, history>>

handleMetricChange ==
    /\ Rendered
    /\ \E value \in Metrics \cup {""} : selectedMetric' = value
    /\ UNCHANGED <<load, engine, selectedState, jurisdictionType,
                   selectedJurisdiction, basketSelections, now, history>>

\* The "Clear selections" button, lines 422-430.
ClearSelections ==
    /\ Rendered
    /\ selectedState # Null \/ selectedJurisdiction # Null \/ selectedMetric # ""
    /\ selectedState' = Null
    /\ jurisdictionType' = "place"
    /\ selectedJurisdiction' = Null
    /\ selectedMetric' = ""
    /\ UNCHANGED <<load, engine, basketSelections, now, history>>

metricLabels(metric) ==
    CASE metric = "pop2024" -> "Population estimate (2024)"
      [] metric = "pop2023" -> "Population estimate (2023)"
      [] metric = "code" -> "GEOID / FIPS code"

\* formatNumber(parseInt(field || '0'))
PopulationText(field) == formatNumber(parseInt(OrElse(field, <<"0">>)))

\* The value a row yields for a metric, lines 322-328 and 336-342.
MetricValue(row, metric, jurisdictionCode) ==
    IF metric = "pop2024" THEN PopulationText(row.POPESTIMATE2024)
    ELSE IF metric = "pop2023" THEN PopulationText(row.POPESTIMATE2023)
    ELSE jurisdictionCode

\* A lookup that guesses a row of the table when the key is absent.
MapGetGuessing(m, key) ==
    IF MapHas(m, key) THEN m[key]
    ELSE IF DOMAIN m # {} THEN m[CHOOSE k \in DOMAIN m : TRUE]
    ELSE Null

\* Map.prototype.get(key): the row, or undefined (modelled by Null).
MapGet(m, key) == IF MapHas(m, key) THEN m[key] ELSE Null

\* `${Date.now()}-${Math.random()}`: two identities are the same text exactly
\* when both numbers are the same.
SelectionId(time, random) == <<time, random>>

\* The Selection handleAddSelection builds, as a sequence of one element, or
\* the empty sequence when the handler returns early (lines 308, 317, 331).
NewSelection(state, type, jurisdiction, metric, id) ==
    IF state = Null \/ jurisdiction = Null \/ metric = "" THEN <<>>
    ELSE IF type = "place"
    THEN LET row == MapGet(placeLookup, jurisdiction.value)
         IN  IF row = Null THEN <<>>
         ELSE LET jurisdictionCode == getPlaceGEOID(row.STATE_, row.PLACE)
              IN  << [id |-> id,
                      stateName |-> state.name,
                      stateFips |-> state.fips,
                      type |-> type,
                      jurisdictionName |-> row.NAME,
                      jurisdictionCode |-> jurisdictionCode,
                      metric |-> metric,
                      metricLabel |-> metricLabels(metric),
                      value |-> MetricValue(row, metric, jurisdictionCode)] >>
    ELSE LET row == MapGet(countyLookup, jurisdiction.value)
         IN  IF row = Null THEN <<>>
         ELSE LET jurisdictionCode == getCountyFIPS(row.STATE_, row.COUNTY)
              IN  << [id |-> id,
                      stateName |-> state.name,
                      stateFips |-> state.fips,
                      type |-> type,
                      jurisdictionName |-> row.CTYNAME,
                      jurisdictionCode |-> jurisdictionCode,
                      metric |-> metric,
                      metricLabel |-> metricLabels(metric),
                      value |-> MetricValue(row, metric, jurisdictionCode)] >>

\* Date.now() never runs backwards; Math.random() returns any of its values.
handleAddSelection ==
    /\ Rendered
    /\ Len(basketSelections) < MaxBasket
    /\ \E time \in {t \in Instants : t >= now}, random \in RandomValues :
          /\ now' = time
          /\ basketSelections' =
                basketSelections \o NewSelection(selectedState, jurisdictionType,
                                                 selectedJurisdiction, selectedMetric,
                                                 SelectionId(time, random))
    /\ UNCHANGED <<load, engine, form, history>>

\* The history of removed identities, in the runs that keep it.
Removed(ids) ==
    /\ removedIds' = IF keepHistory THEN removedIds \cup ids ELSE removedIds
    /\ UNCHANGED <<keepHistory, unknownResolved, identifier>>

\* basketSelections.filter((sel) => sel.id !== id)
WithoutId(selections, id) ==
    LET Keep(sel) == sel.id # id IN SelectSeq(selections, Keep)

handleRemoveSelection ==
    /\ Rendered
    /\ \E i \in 1..Len(basketSelections) :
          LET id == basketSelections[i].id
          IN  /\ basketSelections' = WithoutId(basketSelections, id)
              /\ Removed({id})
    /\ UNCHANGED <<load, engine, form, now>>

\* The "Clear all" button is rendered when the basket is not empty (line 633).
handleClearAll ==
    /\ Rendered
    /\ Len(basketSelections) > 0
    /\ basketSelections' = <<>>
    /\ Removed({basketSelections[i].id : i \in 1..Len(basketSelections)})
    /\ UNCHANGED <<load, engine, form, now>>

(***************************************************************************)
(* The results table, lines 711-801.                                       *)
(***************************************************************************)
\* The marker of an empty population cell.
NoValueMarker == <<"-", "-">>

\* A row key that tells the metrics of one jurisdiction apart.
RowKeyPerMetric(sel) ==
    sel.stateFips \o <<"-", sel.type, "-">> \o sel.jurisdictionCode \o <<"-", sel.metric>>

\* `${sel.stateFips}-${sel.type}-${sel.jurisdictionCode}`
RowKey(sel) == sel.stateFips \o <<"-", sel.type, "-">> \o sel.jurisdictionCode

showColumn(selections, metric) ==
    \E i \in 1..Len(selections) : selections[i].metric = metric

showCodeColumn == showColumn(basketSelections, "code")

showPop2023Column == showColumn(basketSelections, "pop2023")

showPop2024Column == showColumn(basketSelections, "pop2024")

\* The row a key is given when it is first seen, lines 735-740.
NewRow(sel) ==
    [stateName |-> sel.stateName,
     type |-> sel.type,
     jurisdictionName |-> sel.jurisdictionName,
     jurisdictionCode |-> sel.jurisdictionCode,
     code |-> Undefined,
     pop2023 |-> Undefined,
     pop2024 |-> Undefined]

\* The row after the Selection is written to its slot, lines 744-750.
WriteSlot(row, sel) ==
    IF sel.metric = "code" THEN [row EXCEPT !.code = sel.jurisdictionCode]
    ELSE IF sel.metric = "pop2023" THEN [row EXCEPT !.pop2023 = sel.value]
    ELSE IF sel.metric = "pop2024" THEN [row EXCEPT !.pop2024 = sel.value]
    ELSE row

\* One iteration of the forEach over the basket: entries is rowMap as the
\* sequence of its entries in insertion order.
AddToRowMap(entries, sel) ==
    LET key == RowKey(sel)
        present == IF \E i \in 1..Len(entries) : entries[i].key = key
                   THEN entries
                   ELSE Append(entries, [key |-> key, value |-> NewRow(sel)])
    IN  [i \in 1..Len(present) |->
            IF present[i].key = key
            THEN [key |-> key, value |-> WriteSlot(present[i].value, sel)]
            ELSE present[i]]

rowMap(selections) ==
    LET F[i \in 0..Len(selections)] ==
            IF i = 0 THEN <<>> ELSE AddToRowMap(F[i - 1], selections[i])
    IN  F[Len(selections)]

\* Array.from(rowMap.values())
rows(selections) ==
    LET entries == rowMap(selections)
    IN  [i \in 1..Len(entries) |-> entries[i].value]

\* The cells of a row, lines 780-794.
CodeCell(row) == OrElse(row.code, row.jurisdictionCode)

Pop2023Cell(row) == OrElse(row.pop2023, NoValueMarker)

\* A current-year cell that shows zero for a missing value.
Pop2024CellZero(row) == OrElse(row.pop2024, <<"0">>)

Pop2024Cell(row) == OrElse(row.pop2024, NoValueMarker)

\* The results table is rendered when the basket is not empty (line 697).
TableRendered == Rendered /\ Len(basketSelections) > 0

(***************************************************************************)
(* A caller that breaks the contract of resolve: handleAddSelection runs   *)
(* on a form whose jurisdiction is an option the lookup table of the       *)
(* current type does not hold, a code of the other type or of no row.      *)
(***************************************************************************)
UnknownOption == [value |-> <<"9", "9", "9", "9", "9">>, label |-> <<"z">>]

\* The lookup table handleAddSelection reads for a type.
LookupOf(type) == IF type = "place" THEN placeLookup ELSE countyLookup

AllOptions ==
    UNION { {OptionsFor(states[i], type)[j] : j \in 1..Len(OptionsFor(states[i], type))} :
              i \in 1..Len(states), type \in JurisdictionTypes }

UnknownOptions ==
    {option \in AllOptions \cup {UnknownOption} :
        ~MapHas(LookupOf(jurisdictionType), option.value)}

handleAddSelectionUnknown ==
    /\ Rendered
    /\ Len(basketSelections) < MaxBasket
    /\ selectedState # Null
    /\ selectedMetric # ""
    /\ \E option \in UnknownOptions, time \in {t \in Instants : t >= now},
          random \in RandomValues :
          basketSelections' =
              basketSelections \o NewSelection(selectedState, jurisdictionType, option,
                                               selectedMetric, SelectionId(time, random))
    /\ unknownResolved' = TRUE
    /\ UNCHANGED <<load, engine, form, now, keepHistory, removedIds, identifier>>

Next ==
    \/ PlacesComplete
    \/ PlacesError
    \/ CountiesComplete
    \/ CountiesError
    \/ LoadSucceeded
    \/ LoadFailed
    \/ Cleanup
    \/ handleStateChange
    \/ handleTypeChange
    \/ handleJurisdictionChange
    \/ handleMetricChange
    \/ ClearSelections
    \/ handleAddSelection
    \/ handleRemoveSelection
    \/ handleClearAll

Spec == Init /\ [][Next]_vars

\* Files of one row each: the rows do not bear on whether the load ends.
InitLive ==
    /\ placesData \in {<<>>, <<AlpinePlace>>}
    /\ countiesData \in {<<>>, <<AlamedaCounty>>}
    /\ Mounted
    /\ keepHistory = FALSE
    /\ codeArgs = NoArgs
    /\ canonicalId = Null

\* The program when each parse calls one of its two callbacks, and with the
\* continuation of the await, which the job queue runs once the join settles.
SpecLive ==
    /\ InitLive
    /\ [][Next]_vars
    /\ WF_vars(PlacesComplete \/ PlacesError)
    /\ WF_vars(CountiesComplete \/ CountiesError)
    /\ WF_vars(LoadSucceeded \/ LoadFailed)

\* The program with the history of removed identities.
SpecHistory == InitHistory /\ [][Next]_vars

NextFacade ==
    \/ Next
    \/ handleAddSelectionUnknown

\* The program with a caller that may hand handleAddSelection an unknown code.
SpecFacade == Init /\ [][NextFacade]_vars

(***************************************************************************)
(* The identifier helpers on their own, lines 76-94: the codes are drawn   *)
(* when the run starts and each helper is applied to them.                 *)
(***************************************************************************)
MaxStateLen == 3

MaxLocalLen == 6

\* The texts over an alphabet of 1 to n characters.
TextsUpTo(alphabet, n) == UNION {[1..k -> alphabet] : k \in 1..n}

StateCodeTexts == TextsUpTo({"0", "6"}, MaxStateLen)

LocalCodeTexts == TextsUpTo({"0", "1"}, MaxLocalLen)

InitIdentifiers ==
    /\ Constructed
    /\ placesData = <<>>
    /\ countiesData = <<>>
    /\ keepHistory = FALSE
    /\ codeArgs \in [state : StateCodeTexts, local : LocalCodeTexts]
    /\ canonicalId = Null

\* getPlaceGEOID(state, place)
PlaceIdentifier ==
    /\ canonicalId' = [type |-> "place",
                       id |-> getPlaceGEOID(codeArgs.state, codeArgs.local)]
    /\ UNCHANGED <<load, engine, form, basketSelections, now, keepHistory,
                   removedIds, unknownResolved, codeArgs>>

\* getCountyFIPS(state, county)
CountyIdentifier ==
    /\ canonicalId' = [type |-> "county",
                       id |-> getCountyFIPS(codeArgs.state, codeArgs.local)]
    /\ UNCHANGED <<load, engine, form, basketSelections, now, keepHistory,
                   removedIds, unknownResolved, codeArgs>>

NextIdentifiers ==
    \/ PlaceIdentifier
    \/ CountyIdentifier

SpecIdentifiers == InitIdentifiers /\ [][NextIdentifiers]_vars

(***************************************************************************)
(* Properties of the results table.                                        *)
(***************************************************************************)
\* The composite key (state code, type, jurisdiction code) of a Selection.
KeyOf(sel) == <<sel.stateFips, sel.type, sel.jurisdictionCode>>

KeysOf(selections) == {KeyOf(selections[i]) : i \in 1..Len(selections)}

\* The positions at which a key occurs for the first time, in order.
FirstSeen(selections) ==
    LET IsFirst(i) == \A j \in 1..(i - 1) : KeyOf(selections[j]) # KeyOf(selections[i])
    IN  SelectSeq([i \in 1..Len(selections) |-> i], IsFirst)

\* The positions of the Selections of a key and a metric kind.
PositionsOf(selections, key, metric) ==
    {i \in 1..Len(selections) : KeyOf(selections[i]) = key /\ selections[i].metric = metric}

\* The value of the latest Selection of a key and a metric kind, if there is one.
LatestValue(selections, key, metric) ==
    LET at == PositionsOf(selections, key, metric)
    IN  IF at = {} THEN Undefined
        ELSE selections[CHOOSE i \in at : \A j \in at : j <= i].value

SlotOf(row, metric) ==
    IF metric = "code" THEN row.code
    ELSE IF metric = "pop2023" THEN row.pop2023
    ELSE row.pop2024

CellOf(row, metric) ==
    IF metric = "code" THEN CodeCell(row)
    ELSE IF metric = "pop2023" THEN Pop2023Cell(row)
    ELSE Pop2024Cell(row)

ShownColumns ==
    (IF showCodeColumn THEN {"code"} ELSE {})
        \cup (IF showPop2023Column THEN {"pop2023"} ELSE {})
        \cup (IF showPop2024Column THEN {"pop2024"} ELSE {})

\* selections without the element at position i.
RemoveAt(selections, i) ==
    [j \in 1..(Len(selections) - 1) |-> IF j < i THEN selections[j] ELSE selections[j + 1]]

\* One row per key, in the order the keys were first seen.
OneRowPerKey(selections) ==
    LET table == rows(selections)
        first == FirstSeen(selections)
    IN  /\ Len(table) = Cardinality(KeysOf(selections))
        /\ Len(table) = Len(first)
        /\ \A k \in 1..Len(table) :
              /\ table[k].stateName = selections[first[k]].stateName
              /\ table[k].type = selections[first[k]].type
              /\ table[k].jurisdictionName = selections[first[k]].jurisdictionName
              /\ table[k].jurisdictionCode = selections[first[k]].jurisdictionCode

\* Every slot of every row holds the value of the latest Selection of its kind.
LatestWins(selections) ==
    LET table == rows(selections)
        first == FirstSeen(selections)
    IN  \A k \in 1..Len(table) : \A metric \in Metrics :
            SlotOf(table[k], metric) =
                LatestValue(selections, KeyOf(selections[first[k]]), metric)

\* C1: aggregation yields one row per jurisdiction key whose slots hold the
\* value of the latest Selection of each metric kind, and every Selection of
\* the sequence is removed, alone, by its own identity.
C1_LatestWinsAndRemovable ==
    /\ OneRowPerKey(basketSelections)
    /\ LatestWins(basketSelections)
    /\ \A i \in 1..Len(basketSelections) :
          WithoutId(basketSelections, basketSelections[i].id) = RemoveAt(basketSelections, i)

\* C2: the rows are the groups of the composite key (state code, type,
\* jurisdiction code), as many rows as distinct keys, in first-seen order, and
\* a code Selection with a population Selection of one jurisdiction give one
\* row with both slots populated.
C2_GroupedByKey ==
    /\ OneRowPerKey(basketSelections)
    /\ \A i, j \in 1..Len(basketSelections) :
          LET a == basketSelections[i]
              b == basketSelections[j]
              table == rows(basketSelections)
              first == FirstSeen(basketSelections)
              at == {k \in 1..Len(table) : KeyOf(basketSelections[first[k]]) = KeyOf(a)}
          IN  (KeyOf(a) = KeyOf(b) /\ a.metric = "code" /\ b.metric \in {"pop2023", "pop2024"})
                  => /\ Cardinality(at) = 1
                     /\ \A k \in at : Truthy(table[k].code) /\ Truthy(SlotOf(table[k], b.metric))

\* Witness of C2: a code Selection and a population Selection of one
\* jurisdiction are in the basket and the table has a single row.
C2_Witness ==
    /\ Len(basketSelections) = 2
    /\ KeyOf(basketSelections[1]) = KeyOf(basketSelections[2])
    /\ basketSelections[1].metric = "code"
    /\ basketSelections[2].metric = "pop2024"
    /\ Len(rows(basketSelections)) = 1

\* Whether the basket holds a Selection of the metric kind for the k-th row.
HasSelection(k, metric) ==
    PositionsOf(basketSelections,
                KeyOf(basketSelections[FirstSeen(basketSelections)[k]]), metric) # {}

\* C3, as stated: the displayed columns are the metric kinds present in the
\* basket, and in every displayed column, the code column included, a row
\* without a Selection of that kind shows the "no value" marker.
C3_MarkerInEveryColumn ==
    TableRendered =>
        /\ ShownColumns = {basketSelections[i].metric : i \in 1..Len(basketSelections)}
        /\ \A k \in 1..Len(rows(basketSelections)) : \A metric \in ShownColumns :
              ~HasSelection(k, metric)
                  => CellOf(rows(basketSelections)[k], metric) = NoValueMarker

\* C3, amended: the displayed columns are the metric kinds present in the
\* basket; a row without a Selection of a population kind shows the "no value"
\* marker in that column, and a row without a code Selection shows its own
\* jurisdiction code in the code column.
C3_MarkerInPopulationColumns ==
    TableRendered =>
        /\ ShownColumns = {basketSelections[i].metric : i \in 1..Len(basketSelections)}
        /\ \A k \in 1..Len(rows(basketSelections)) : \A metric \in ShownColumns :
              ~HasSelection(k, metric)
                  => CellOf(rows(basketSelections)[k], metric) =
                        IF metric = "code"
                        THEN basketSelections[FirstSeen(basketSelections)[k]].jurisdictionCode
                        ELSE NoValueMarker

\* Witness of C3: two jurisdictions, one with a code Selection only and one
\* with a population Selection only, so both kinds of empty cell are shown.
C3_Witness ==
    /\ TableRendered
    /\ Len(rows(basketSelections)) = 2
    /\ basketSelections[1].metric = "code"
    /\ basketSelections[2].metric = "pop2024"
    /\ CellOf(rows(basketSelections)[1], "pop2024") = NoValueMarker
    /\ CellOf(rows(basketSelections)[2], "code") = basketSelections[2].jurisdictionCode

(***************************************************************************)
(* Properties of handleAddSelection.                                       *)
(***************************************************************************)
\* C4, as stated: handleAddSelection run with a code its lookup table lacks
\* ends in an error outcome and appends no Selection.
C4_UnknownJurisdictionFails ==
    [][handleAddSelectionUnknown
          => (error' # NoError /\ basketSelections' = basketSelections)]_vars

\* C4, amended: handleAddSelection run with a code its lookup table lacks
\* returns without appending a Selection, without guessing a row and without
\* reporting any error: the basket and the error value are unchanged.
C4_UnknownJurisdictionIgnored ==
    [][handleAddSelectionUnknown
          => (error' = NoError /\ error = NoError
                /\ basketSelections' = basketSelections)]_vars

\* Witness of C4: the handler has run with an unknown code while the lookup
\* tables hold rows, and the basket is still empty.
C4_Witness ==
    /\ unknownResolved
    /\ Rendered
    /\ DOMAIN placeLookup # {}
    /\ DOMAIN countyLookup # {}
    /\ basketSelections = <<>>

\* The text of a non-negative integer in en-US grouping: digits with commas.
IsNonNegativeIntegerText(text) ==
    /\ text # <<>>
    /\ \A i \in 1..Len(text) : text[i] \in Digit \cup {","}
    /\ text[1] \in Digit

\* The estimate field a population Selection was resolved from.
EstimateField(sel) ==
    LET row == LookupOf(sel.type)[sel.jurisdictionCode]
    IN  IF sel.metric = "pop2024" THEN row.POPESTIMATE2024 ELSE row.POPESTIMATE2023

\* Whether a field is decimal digits only.
IsNumeric(field) ==
    field # Undefined /\ field # <<>> /\ \A i \in 1..Len(field) : field[i] \in Digit

\* C5: the value of a population Selection is the text of a non-negative
\* integer, never a not-a-number result, and it is "0" when the estimate
\* field is absent, empty or not numeric.
C5_PopulationTextIsInteger ==
    \A i \in 1..Len(basketSelections) :
        LET sel == basketSelections[i]
        IN  sel.metric \in {"pop2023", "pop2024"}
                => /\ IsNonNegativeIntegerText(sel.value)
                   /\ ~IsNumeric(EstimateField(sel)) => sel.value = <<"0">>

\* resolve(code, type, metric): the value handleAddSelection gives a Selection
\* of the jurisdiction, or Undefined when it adds none.
Resolve(code, type, metric) ==
    LET added == NewSelection([name |-> <<>>, fips |-> <<>>], type,
                              [value |-> code, label |-> <<>>], metric, SelectionId(0, 0))
    IN  IF added = <<>> THEN Undefined ELSE added[1].value

\* The state codes optionsFor can be asked about.
StateCodes ==
    {states[i].fips : i \in 1..Len(states)}
        \cup DOMAIN placesByStateFips \cup DOMAIN countiesByStateFips

\* C6: every code optionsFor returns, for any state code and type, is a key
\* of the lookup table of the type, and resolving it for the code metric
\* returns that code.
C6_OptionsResolveToThemselves ==
    \A fips \in StateCodes, type \in JurisdictionTypes :
        LET options == OptionsFor([name |-> <<>>, fips |-> fips], type)
        IN  \A i \in 1..Len(options) :
                /\ MapHas(LookupOf(type), options[i].value)
                /\ Resolve(options[i].value, type, "code") = options[i].value

\* Witness of C6: two retained place rows of one state have the same code,
\* and a county written without leading zeros is offered as well.
C6_Witness ==
    /\ Rendered
    /\ \E fips \in StateCodes :
          LET options == OptionsFor([name |-> <<>>, fips |-> fips], "place")
          IN  /\ Len(options) = 2
              /\ options[1].value = options[2].value
              /\ Resolve(options[1].value, "place", "code") = options[1].value
    /\ \E fips \in StateCodes :
          Len(OptionsFor([name |-> <<>>, fips |-> fips], "county")) = 1

(***************************************************************************)
(* Properties of the load.                                                 *)
(***************************************************************************)
\* The five index structures as one record.
Indices ==
    [states |-> states,
     placesByStateFips |-> placesByStateFips,
     countiesByStateFips |-> countiesByStateFips,
     placeLookup |-> placeLookup,
     countyLookup |-> countyLookup]

\* The indices as the component is constructed with.
EmptyIndices ==
    [states |-> <<>>,
     placesByStateFips |-> EmptyMap,
     countiesByStateFips |-> EmptyMap,
     placeLookup |-> EmptyMap,
     countyLookup |-> EmptyMap]

\* The indices of the two datasets of this session.
BuiltIndices ==
    LET e == PublishedEngine(placesData, countiesData)
    IN  [states |-> e.states,
         placesByStateFips |-> e.placesByStateFips,
         countiesByStateFips |-> e.countiesByStateFips,
         placeLookup |-> e.placeLookup,
         countyLookup |-> e.countyLookup]

\* C7: once either parse has failed the indices are all empty, and when the
\* load has ended that way in a mounted component the error is set and
\* loading is false; a load that succeeded, with empty indices or not, has
\* no error, so the two outcomes differ in the error value.
C7_AllOrNothingLoad ==
    /\ AnyRejected => Indices = EmptyIndices
    /\ (AnyRejected /\ pc = "done" /\ ~isCancelled)
          => (error = LoadErrorMessage /\ error # NoError /\ ~loading)
    /\ (AllResolved /\ pc = "done" /\ ~isCancelled)
          => (error = NoError /\ ~loading)

\* Witness of C7: the place parse succeeded with rows, the county parse
\* failed, and the load has ended in the failure state.
C7_Witness ==
    /\ placesPromise = "resolved"
    /\ countiesPromise = "rejected"
    /\ placesData # <<>>
    /\ pc = "done"
    /\ ~isCancelled
    /\ error = LoadErrorMessage
    /\ ~loading
    /\ Indices = EmptyIndices

\* C8: after the effect cleanup has run, no step changes the state catalog,
\* the buckets, the lookup tables, the loading flag or the error value.
C8_CancelledLoadIsDiscarded ==
    [][isCancelled => UNCHANGED engine]_vars

\* Witness of C8: both parses succeeded with rows and the load completed
\* after the cleanup, and the engine is as it was constructed.
C8_Witness ==
    /\ isCancelled
    /\ pc = "done"
    /\ AllResolved
    /\ placesData # <<>>
    /\ countiesData # <<>>
    /\ loading
    /\ error = NoError
    /\ Indices = EmptyIndices

\* C9: the five indices are either all as constructed or all those built
\* from the two datasets; they are built only after both parses resolved
\* and the continuation ran; and whenever loading is false with no error
\* they are the built ones.
C9_AtomicPublication ==
    /\ Indices \in {EmptyIndices, BuiltIndices}
    /\ Indices # EmptyIndices => (AllResolved /\ pc = "done")
    /\ (~loading /\ error = NoError)
          => (Indices = BuiltIndices /\ AllResolved /\ pc = "done")

\* Witness of C9: the load has published, and each of the five indices
\* holds entries.
C9_Witness ==
    /\ ~loading
    /\ error = NoError
    /\ states # <<>>
    /\ DOMAIN placesByStateFips # {}
    /\ DOMAIN countiesByStateFips # {}
    /\ DOMAIN placeLookup # {}
    /\ DOMAIN countyLookup # {}

(***************************************************************************)
(* Properties of the Selection identities.                                 *)
(***************************************************************************)
\* C10: no two Selections of the basket have the same identity, and no
\* Selection of the basket has the identity of a Selection removed before.
C10_IdentitiesUnique ==
    /\ \A i, j \in 1..Len(basketSelections) :
          i # j => basketSelections[i].id # basketSelections[j].id
    /\ \A i \in 1..Len(basketSelections) : basketSelections[i].id \notin removedIds

(***************************************************************************)
(* Properties of handleRemoveSelection.                                    *)
(***************************************************************************)
\* Every identity handleAddSelection can give.
Identities == {SelectionId(time, random) : time \in Instants, random \in RandomValues}

\* The identities of the Selections of a sequence.
IdsOf(selections) == {selections[i].id : i \in 1..Len(selections)}

\* C11: handleRemoveSelection deletes exactly one Selection, the one with the
\* identity, and leaves the others unchanged and in the same order; removing
\* an identity no Selection has leaves the sequence unchanged.
C11_RemoveDeletesExactlyOne ==
    [][/\ handleRemoveSelection
            => \E i \in 1..Len(basketSelections) :
                  basketSelections' = RemoveAt(basketSelections, i)
       /\ \A id \in Identities \ IdsOf(basketSelections) :
              WithoutId(basketSelections, id) = basketSelections]_vars

(***************************************************************************)
(* Properties of the index build.                                          *)
(***************************************************************************)
\* The rows of the buckets of a bucket map.
BucketRows(m) == UNION { {m[k][j] : j \in 1..Len(m[k])} : k \in DOMAIN m }

\* The rows a flat lookup table returns.
LookupRows(m) == {m[k] : k \in DOMAIN m}

\* C12: a place row whose summary level is not "162" is in no bucket of the
\* place index and is no value of the place lookup table; every row of both
\* has the summary level "162".
C12_OnlyIncorporatedPlaces ==
    /\ \A i \in 1..Len(placesData) :
          placesData[i].SUMLEV # PlaceSumlev
              => placesData[i] \notin BucketRows(placesByStateFips) \cup LookupRows(placeLookup)
    /\ \A row \in BucketRows(placesByStateFips) \cup LookupRows(placeLookup) :
          row.SUMLEV = PlaceSumlev

\* Witness of C12: the indices are published from a dataset with a row of
\* another summary level, well-formed and with the codes of a retained row.
C12_Witness ==
    /\ Rendered
    /\ \E i \in 1..Len(placesData) : \E kept \in LookupRows(placeLookup) :
          /\ placesData[i].SUMLEV # PlaceSumlev
          /\ Truthy(placesData[i].STNAME) /\ Truthy(placesData[i].NAME)
          /\ placesData[i].STATE_ = kept.STATE_
          /\ placesData[i].PLACE = kept.PLACE

\* C13: every row of a county bucket or of the county lookup table has the
\* summary level "050" and a county code other than "000"; a row of the
\* dataset that misses either is in neither.
C13_OnlyCounties ==
    /\ \A row \in BucketRows(countiesByStateFips) \cup LookupRows(countyLookup) :
          row.SUMLEV = CountySumlev /\ row.COUNTY # StateAggregateCounty
    /\ \A i \in 1..Len(countiesData) :
          (countiesData[i].SUMLEV # CountySumlev \/ countiesData[i].COUNTY = StateAggregateCounty)
              => countiesData[i] \notin
                    BucketRows(countiesByStateFips) \cup LookupRows(countyLookup)

\* Witness of C13: the indices are published from a dataset with a row of
\* county code "000" at the summary level "050", next to a retained county.
C13_Witness ==
    /\ Rendered
    /\ LookupRows(countyLookup) # {}
    /\ BucketRows(countiesByStateFips) # {}
    /\ \E i \in 1..Len(countiesData) :
          /\ countiesData[i].SUMLEV = CountySumlev
          /\ countiesData[i].COUNTY = StateAggregateCounty
          /\ Truthy(countiesData[i].STATE_) /\ Truthy(countiesData[i].CTYNAME)

\* The padded state codes of the rows of a dataset that have a state code.
ObservedStateCodes(data) ==
    {padState(data[i].STATE_) : i \in {j \in 1..Len(data) : Truthy(data[j].STATE_)}}

\* The load has published its indices.
LoadPublished == ~loading /\ error = NoError

\* No two entries of the catalog have the same state code.
CatalogCodesDistinct ==
    \A i, j \in 1..Len(states) : i # j => states[i].fips # states[j].fips

\* C14: the catalog of a successful load has one entry for each padded state
\* code observed in either dataset and no other, no two entries with the
\* same code, and its entries are in the order of the state names.
C14_CatalogOnePerStateCode ==
    LoadPublished
        => /\ CatalogCodesDistinct
           /\ {states[i].fips : i \in 1..Len(states)}
                 = ObservedStateCodes(placesData) \cup ObservedStateCodes(countiesData)
           /\ \A i, j \in 1..Len(states) :
                 i < j => ~NameBefore(states[j].name, states[i].name)

(***************************************************************************)
(* Properties of the identifier helpers.                                   *)
(***************************************************************************)
\* padded is text left-filled with "0" up to the width, or text itself when
\* text is at least that long.
IsPadOf(padded, text, width) ==
    IF Len(text) >= width THEN padded = text
    ELSE /\ Len(padded) = width
         /\ \A i \in 1..(width - Len(text)) : padded[i] = "0"
         /\ \A i \in 1..Len(text) : padded[width - Len(text) + i] = text[i]

\* The width the local code of a type is padded to.
LocalWidth(type) == IF type = "place" THEN 5 ELSE 3

\* C15: the identifier is the state code padded to 2 followed by the local
\* code padded to 5 (place) or 3 (county), a longer code is left as it is,
\* and codes within the widths give 7 resp. 5 characters.
C15_IdentifierIsPaddedCodes ==
    /\ getPlaceGEOID(<<"6">>, <<"1", "2", "3", "4", "5">>)
          = <<"0", "6", "1", "2", "3", "4", "5">>
    /\ getCountyFIPS(<<"6">>, <<"1">>) = <<"0", "6", "0", "0", "1">>
    /\ canonicalId # Null
          => LET id == canonicalId.id
                 width == LocalWidth(canonicalId.type)
             IN  /\ \E k \in 0..Len(id) :
                       /\ IsPadOf(SubSeq(id, 1, k), codeArgs.state, 2)
                       /\ IsPadOf(SubSeq(id, k + 1, Len(id)), codeArgs.local, width)
                 /\ (Len(codeArgs.state) <= 2 /\ Len(codeArgs.local) <= width)
                       => Len(id) = 2 + width

\* Witness of C15: a place identifier of a one-character state code and a
\* local code longer than the width, and so of eight characters.
C15_Witness ==
    /\ canonicalId # Null
    /\ canonicalId.type = "place"
    /\ Len(codeArgs.state) = 1
    /\ Len(codeArgs.local) = 6
    /\ Len(canonicalId.id) = 8

(***************************************************************************)
(* Properties of the flat lookup tables.                                   *)
(***************************************************************************)
\* The positions of the rows retained in the buckets of a bucket map.
BucketPositions(m) ==
    UNION { {<<k, j>> : j \in 1..Len(m[k])} : k \in DOMAIN m }

\* No two retained rows have the same key, the table has one entry per
\* retained row, and it returns every retained row for its own key.
OneEntryPerRow(buckets, lookup, Key(_)) ==
    /\ \A p, q \in BucketPositions(buckets) :
          p # q => Key(buckets[p[1]][p[2]]) # Key(buckets[q[1]][q[2]])
    /\ Cardinality(DOMAIN lookup) = Cardinality(BucketPositions(buckets))
    /\ \A p \in BucketPositions(buckets) :
          LET row == buckets[p[1]][p[2]]
          IN  MapHas(lookup, Key(row)) /\ lookup[Key(row)] = row

\* C16: in the indices of either dataset the canonical identifier is unique
\* per retained row, the lookup table has as many entries as there are
\* retained rows, and every retained row is the record of its own code.
C16_IdentifierUniquePerRow ==
    /\ OneEntryPerRow(placesByStateFips, placeLookup, PlaceLookupKey)
    /\ OneEntryPerRow(countiesByStateFips, countyLookup, CountyLookupKey)

(***************************************************************************)
(* Termination of the load.                                                *)
(***************************************************************************)
\* The two terminal outcomes of a load.
PublishedOutcome == ~loading /\ error = NoError /\ Indices = BuiltIndices

FailedOutcome == ~loading /\ error = LoadErrorMessage /\ Indices = EmptyIndices

\* C17: a load that is not cancelled eventually leaves the loading state;
\* whenever loading is false the outcome is one of the two, indices
\* published with no error or the failure with empty indices; and from then
\* on no step changes the indices, the loading flag or the error value.
C17_LoadReachesOneOutcome ==
    /\ <>(isCancelled \/ ~loading)
    /\ [](~loading => (PublishedOutcome \/ FailedOutcome))
    /\ [](~(PublishedOutcome /\ FailedOutcome))
    /\ [][~loading => UNCHANGED engine]_vars

\* Witness of C17: the load has published in a mounted component, and
\* caller operations have run since.
C17_Witness ==
    /\ ~isCancelled
    /\ PublishedOutcome
    /\ DOMAIN placeLookup # {}
    /\ selectedState # Null
    /\ Len(basketSelections) > 0

(***************************************************************************)
(* Consistency of the basket with the indices.                             *)
(***************************************************************************)
\* The name field of a row of a type.
NameOf(row, type) == IF type = "place" THEN row.NAME ELSE row.CTYNAME

\* The Selection agrees with the record its code has in the lookup table of
\* its type.
ConsistentSelection(sel) ==
    /\ MapHas(LookupOf(sel.type), sel.jurisdictionCode)
    /\ LET row == LookupOf(sel.type)[sel.jurisdictionCode]
       IN  /\ padState(row.STATE_) = sel.stateFips
           /\ sel.jurisdictionName = NameOf(row, sel.type)
    /\ sel.metric = "code" => sel.value = sel.jurisdictionCode

\* C18: every Selection of the basket has a code that is a key of the lookup
\* table of its type, the state and the name of the record found there, and,
\* for the code metric, its code as value; and the jurisdiction of the form
\* is always an option of the current state and type.
C18_SelectionsConsistentWithIndices ==
    /\ \A i \in 1..Len(basketSelections) : ConsistentSelection(basketSelections[i])
    /\ selectedJurisdiction # Null
          => /\ selectedState # Null
             /\ \E i \in 1..Len(jurisdictionOptions) :
                   jurisdictionOptions[i] = selectedJurisdiction

\* Witness of C18: the basket holds a place and a county, added on either
\* side of a type change, and the state of the form was changed afterwards.
C18_Witness ==
    /\ Len(basketSelections) = 2
    /\ basketSelections[1].type # basketSelections[2].type
    /\ selectedState # Null
    /\ selectedState.fips # basketSelections[2].stateFips
    /\ selectedJurisdiction = Null

\* The options the catalog gives access to, for a type.
ReachableOptions(type) ==
    UNION { {OptionsFor(states[i], type)[j] : j \in 1..Len(OptionsFor(states[i], type))} :
              i \in 1..Len(states) }

\* C19: after a successful load every state code that is a key of the place
\* or of the county bucket map is the code of an entry of the catalog, and
\* every retained row is an option of some entry of the catalog.
C19_BucketStatesInCatalog ==
    LoadPublished
        => /\ DOMAIN placesByStateFips \cup DOMAIN countiesByStateFips
                 \subseteq {states[i].fips : i \in 1..Len(states)}
           /\ \A row \in BucketRows(placesByStateFips) :
                 PlaceOption(row) \in ReachableOptions("place")
           /\ \A row \in BucketRows(countiesByStateFips) :
                 CountyOption(row) \in ReachableOptions("county")

====
